---- MODULE Spec2Model ----
(***************************************************************************)
(* The long-operation lock wrapper of package lock (longOperation.Lock,    *)
(* its renewal goroutine, longOperation.Unlock) around a renewable lock    *)
(* whose lease lives in a shared key/value store.                          *)
(*                                                                         *)
(* Every caller of Holders owns one wrapper instance on the same           *)
(* (tenant, name) key and uses it for one Lock/Unlock pair.  Time is       *)
(* discrete: one Tock is one time unit; the lease and every ticker are     *)
(* count-downs, so the state space is finite and behaviours are infinite.  *)
(***************************************************************************)
EXTENDS Naturals, FiniteSets, Sequences

\* The callers, each with its own longOperation instance on the same key.
Holders == {"A", "B"}

\* l.timeout, which is also the lease duration of the wrapped lock.
LockTimeout == 6

\* The saturation point of the heldFor clock (twice the lease and one more).
MaxHeld == 2 * LockTimeout + 1

\* The errors the wrapped Lock() returns: retry budget exceeded, store
\* unreachable.
Errs == {"timeout", "unreachable"}

\* The clients of the plain read/write lock on the key.
Clients == {"c1", "c2", "c3"}

\* The retry budget of the distributed Lock()/RLock(): the maximum total wait.
MaxWait == 3

\* Lock() calls on one wrapper instance in the reuse specification.
MaxLocks == 2

\* The longest tenant identifier and resource name drawn.
MaxLen == 2

\* The largest l.timeout drawn for the period.
MaxTimeoutIn == 12

\* The characters of tenant identifiers and resource names.
Alphabet == {"a", "/"}

\* The non-empty strings of at most n characters.
Str(n) == UNION {[1..k -> Alphabet] : k \in 1..n}

\* The redis clients New() is called with; "nil" is no client.
RedisClients == {"nil", "r1", "r2"}

\* The inputs of the pure functions: two (tenant, name) pairs for the key
\* namer, a client for New(), a timeout for the ticker period.
PureInputs ==
    [op : {"key"}, t1 : Str(MaxLen), n1 : Str(MaxLen),
     t2 : Str(MaxLen), n2 : Str(MaxLen)]
    \cup [op : {"new"}, client : RedisClients]
    \cup [op : {"period"}, timeout : 1..MaxTimeoutIn]

NoInput == [op |-> "none"]

NoOutput == [op |-> "none"]

VARIABLES
    pc,        \* pc[h]: where caller h is in Lock()/Unlock()
    gpc,       \* gpc[h]: where the renewal goroutine of h's wrapper is
    mu,        \* mu[h]: owner of l.mu: "free", "caller" or "task"
    tick,      \* tick[h]: l.tick, "nil" or "set"
    running,   \* running[h]: the ticker was created and not stopped
    cnt,       \* cnt[h]: time units until the ticker fires next
    ch,        \* ch[h]: ticks buffered in the ticker's channel (capacity 1)
    store,     \* the lease on the key: [token, ttl]; token 0 is "absent"
    tok,       \* tok[h]: the token h's wrapped lock generated (0: none)
    nextToken, \* the next fresh token
    innerRet,  \* innerRet[h]: what the wrapped Lock() returned
    ret,       \* ret[h]: what longOperation.Lock() returned
    nUnlock,   \* nUnlock[h]: calls of the wrapped Unlock() (saturating at 2)
    expired,   \* holders whose lease ran out in the store
    heldFor,   \* heldFor[h]: time units since Lock() returned (saturating;
               \* the timed specification's clock)
    late,      \* late[h]: time units h's pending work has been waiting (the
               \* timed specification's clock)
    opc,       \* opc[h]: where the goroutine of an earlier Lock() on h's
               \* wrapper is ("none": the wrapper was not reused)
    och,       \* och[h]: the channel that goroutine took at line 68: the
               \* stopped ticker's ("old") or the current one's ("new")
    chOld,     \* chOld[h]: ticks buffered in the stopped ticker's channel
    gen,       \* gen[h]: successful Lock() calls on h's wrapper so far
    cpc,       \* cpc[c]: where client c of the read/write lock is
    ctok,      \* ctok[c]: the token c's Lock() generated (0: none)
    cwait,     \* cwait[c]: time units c's Lock()/RLock() has waited
    readers,   \* the key's reader count in the store
    up,        \* the store can be reached
    pin,       \* the input of a pure function
    pout       \* its result

\* The variables the wrapper's one-Lock/Unlock-pair steps leave alone.
rest == <<opc, och, chOld, gen, cpc, ctok, cwait, readers, up, pin, pout>>

vars == <<pc, gpc, mu, tick, running, cnt, ch, store, tok, nextToken,
          innerRet, ret, nUnlock, expired, heldFor, late, rest>>

----------------------------------------------------------------------------
\* The wrapped renewable locker (distributed backend).

\* The key is absent from the store.
NoLease == [token |-> 0, ttl |-> 0]

\* Atomic set-if-absent with expiry: the lease after an acquisition attempt
\* with token t.
SetIfAbsent(s, t) ==
    IF s.token = 0 THEN [token |-> t, ttl |-> LockTimeout] ELSE s

\* Mutant: the delete does not compare the token.
DeleteAlways(s, t) == NoLease

\* Atomic delete-if-stored-value-equals-my-token.
DeleteIfMatch(s, t) ==
    IF s.token = t /\ t # 0 THEN NoLease ELSE s

\* Extend: reset the expiry to now + lease only if the token still matches.
ExtendIfMatch(s, t) ==
    IF s.token = t /\ t # 0 THEN [token |-> t, ttl |-> LockTimeout] ELSE s

\* Mutant: a lease never runs out.
ExpireNever(s) == s

\* One time unit passes in the store: the lease is deleted when it runs out.
Expire(s) ==
    IF s.token = 0 THEN s
    ELSE IF s.ttl > 1 THEN [s EXCEPT !.ttl = s.ttl - 1]
    ELSE NoLease

\* h's token is the one stored: h owns the live lease.
Owns(h) == tok[h] # 0 /\ store.token = tok[h]

----------------------------------------------------------------------------
\* The wrapper.

\* Mutant: the ticker period is the whole lease.
TickPeriodWholeLease == LockTimeout

\* Mutant: the period is half the timeout.
PeriodHalf(timeout) == timeout \div 2

\* l.timeout / 3, by integer division: the argument of time.NewTicker.
Period(timeout) == timeout \div 3

\* time.NewTicker(l.timeout / 3): the period of the wrapper's ticker.
TickPeriod == Period(LockTimeout)

\* Caller h is between the return of a successful Lock() and its Unlock().
Holding(h) == pc[h] = "held"

TypeOK ==
    /\ pc \in [Holders -> {"idle", "locking", "lockret", "held", "failed",
                           "u_wait", "u_locked", "u_cleared", "u_inner",
                           "released"}]
    /\ gpc \in [Holders -> {"none", "top", "chk1", "recv", "relock", "chk2",
                            "extending", "done"}]
    /\ mu \in [Holders -> {"free", "caller", "task", "old"}]
    /\ tick \in [Holders -> {"nil", "set"}]
    /\ running \in [Holders -> BOOLEAN]
    /\ cnt \in [Holders -> 0..LockTimeout]
    /\ ch \in [Holders -> 0..1]
    /\ store \in [token : Nat, ttl : 0..LockTimeout]
    /\ tok \in [Holders -> Nat]
    /\ nextToken \in Nat \ {0}
    /\ innerRet \in [Holders -> {"none", "nil"} \cup Errs]
    /\ ret \in [Holders -> {"none", "nil"} \cup Errs]
    /\ nUnlock \in [Holders -> 0..2]
    /\ expired \subseteq Holders
    /\ heldFor \in [Holders -> 0..MaxHeld]
    /\ late \in [Holders -> Nat]
    /\ opc \in [Holders -> {"none", "top", "chk1", "recv", "relock", "chk2",
                            "extending", "done"}]
    /\ och \in [Holders -> {"old", "new"}]
    /\ chOld \in [Holders -> 0..1]
    /\ gen \in [Holders -> 0..MaxLocks]
    /\ cpc \in [Clients -> {"idle", "locking", "held", "rlocking", "reading",
                            "failed", "rfailed", "crashed", "done"}]
    /\ ctok \in [Clients -> Nat]
    /\ cwait \in [Clients -> 0..MaxWait]
    /\ readers \in 0..Cardinality(Clients)
    /\ up \in BOOLEAN
    /\ pin \in PureInputs \cup {NoInput}

\* A wrapper as its constructor leaves it, and an empty store.
WrapperInit ==
    /\ pc = [h \in Holders |-> "idle"]
    /\ gpc = [h \in Holders |-> "none"]
    /\ mu = [h \in Holders |-> "free"]
    /\ tick = [h \in Holders |-> "nil"]
    /\ running = [h \in Holders |-> FALSE]
    /\ cnt = [h \in Holders |-> 0]
    /\ ch = [h \in Holders |-> 0]
    /\ store = NoLease
    /\ tok = [h \in Holders |-> 0]
    /\ nextToken = 1
    /\ innerRet = [h \in Holders |-> "none"]
    /\ ret = [h \in Holders |-> "none"]
    /\ nUnlock = [h \in Holders |-> 0]
    /\ expired = {}
    /\ heldFor = [h \in Holders |-> 0]
    /\ late = [h \in Holders |-> 0]
    /\ opc = [h \in Holders |-> "none"]
    /\ och = [h \in Holders |-> "old"]
    /\ chOld = [h \in Holders |-> 0]
    /\ gen = [h \in Holders |-> 0]

\* The clients of the read/write lock have not called anything.
ClientsInit ==
    /\ cpc = [c \in Clients |-> "idle"]
    /\ ctok = [c \in Clients |-> 0]
    /\ cwait = [c \in Clients |-> 0]
    /\ readers = 0
    /\ up = TRUE

Init ==
    /\ WrapperInit
    /\ ClientsInit
    /\ pin = NoInput
    /\ pout = NoOutput

\* The caller enters longOperation.Lock(), which calls l.lock.Lock().
LockCall(h) ==
    /\ UNCHANGED rest
    /\ pc[h] = "idle"
    /\ pc' = [pc EXCEPT ![h] = "locking"]
    /\ UNCHANGED <<gpc, mu, tick, running, cnt, ch, store, tok, nextToken,
                   innerRet, ret, nUnlock, expired, heldFor, late>>

\* l.lock.Lock() succeeds: a fresh token is stored with the lease.
InnerLockOk(h) ==
    /\ UNCHANGED rest
    /\ pc[h] = "locking"
    /\ store.token = 0
    /\ store' = SetIfAbsent(store, nextToken)
    /\ tok' = [tok EXCEPT ![h] = nextToken]
    /\ nextToken' = nextToken + 1
    /\ innerRet' = [innerRet EXCEPT ![h] = "nil"]
    /\ pc' = [pc EXCEPT ![h] = "lockret"]
    /\ UNCHANGED <<gpc, mu, tick, running, cnt, ch, ret, nUnlock, expired,
                   heldFor, late>>

\* l.lock.Lock() gives up: the key stayed held for the whole retry budget,
\* or the store could not be reached.
InnerLockErr(h) ==
    /\ UNCHANGED rest
    /\ pc[h] = "locking"
    /\ \E e \in Errs :
          /\ e = "timeout" => store.token # 0
          /\ innerRet' = [innerRet EXCEPT ![h] = e]
    /\ pc' = [pc EXCEPT ![h] = "lockret"]
    /\ UNCHANGED <<gpc, mu, tick, running, cnt, ch, store, tok, nextToken,
                   ret, nUnlock, expired, heldFor, late>>

\* Mutant: the error of l.lock.Lock() is dropped; the ticker and the goroutine
\* are started and nil is returned whatever it returned.
LockFinishIgnoresErr(h) ==
    /\ UNCHANGED rest
    /\ pc[h] = "lockret"
    /\ tick' = [tick EXCEPT ![h] = "set"]
    /\ running' = [running EXCEPT ![h] = TRUE]
    /\ cnt' = [cnt EXCEPT ![h] = LockTimeout \div 3]
    /\ gpc' = [gpc EXCEPT ![h] = "top"]
    /\ ret' = [ret EXCEPT ![h] = "nil"]
    /\ pc' = [pc EXCEPT ![h] = "held"]
    /\ UNCHANGED <<mu, ch, store, tok, nextToken, innerRet, nUnlock,
                   expired, heldFor, late>>

\* Mutant: the ticker is created before the error is looked at.
LockFinishTickerFirst(h) ==
    /\ UNCHANGED rest
    /\ pc[h] = "lockret"
    /\ tick' = [tick EXCEPT ![h] = "set"]
    /\ running' = [running EXCEPT ![h] = TRUE]
    /\ cnt' = [cnt EXCEPT ![h] = LockTimeout \div 3]
    /\ IF innerRet[h] # "nil"
       THEN /\ ret' = [ret EXCEPT ![h] = innerRet[h]]
            /\ pc' = [pc EXCEPT ![h] = "failed"]
            /\ gpc' = gpc
       ELSE /\ gpc' = [gpc EXCEPT ![h] = "top"]
            /\ ret' = [ret EXCEPT ![h] = "nil"]
            /\ pc' = [pc EXCEPT ![h] = "held"]
    /\ UNCHANGED <<mu, ch, store, tok, nextToken, innerRet, nUnlock,
                   expired, heldFor, late>>

\* Lock(), after l.lock.Lock() has returned: return the error, or create the
\* ticker, start the renewal goroutine and return nil.
LockFinish(h) ==
    /\ UNCHANGED rest
    /\ pc[h] = "lockret"
    /\ IF innerRet[h] # "nil"
       THEN /\ ret' = [ret EXCEPT ![h] = innerRet[h]]
            /\ pc' = [pc EXCEPT ![h] = "failed"]
            /\ UNCHANGED <<gpc, tick, running, cnt>>
       ELSE /\ tick' = [tick EXCEPT ![h] = "set"]
            /\ running' = [running EXCEPT ![h] = TRUE]
            /\ cnt' = [cnt EXCEPT ![h] = TickPeriod]
            /\ gpc' = [gpc EXCEPT ![h] = "top"]
            /\ ret' = [ret EXCEPT ![h] = "nil"]
            /\ pc' = [pc EXCEPT ![h] = "held"]
    /\ UNCHANGED <<mu, ch, store, tok, nextToken, innerRet, nUnlock,
                   expired, heldFor, late>>

\* Renewal goroutine, line 64: l.mu.Lock() at the top of the loop.
GLockTop(h) ==
    /\ UNCHANGED rest
    /\ gpc[h] = "top"
    /\ mu[h] = "free"
    /\ mu' = [mu EXCEPT ![h] = "task"]
    /\ gpc' = [gpc EXCEPT ![h] = "chk1"]
    /\ UNCHANGED <<pc, tick, running, cnt, ch, store, tok, nextToken,
                   innerRet, ret, nUnlock, expired, heldFor, late>>

\* Mutant: the l.mu.Unlock() before the receive is missing.
GCheck1KeepsMu(h) ==
    /\ UNCHANGED rest
    /\ gpc[h] = "chk1"
    /\ gpc' = [gpc EXCEPT ![h] = IF tick[h] = "nil" THEN "done" ELSE "recv"]
    /\ mu' = [mu EXCEPT ![h] = IF tick[h] = "nil" THEN "free" ELSE @]
    /\ UNCHANGED <<pc, tick, running, cnt, ch, store, tok, nextToken,
                   innerRet, ret, nUnlock, expired, heldFor, late>>

\* Lines 65-69: return (the deferred l.mu.Unlock() runs) if the ticker was
\* cleared, else take its channel and unlock.
GCheck1(h) ==
    /\ UNCHANGED rest
    /\ gpc[h] = "chk1"
    /\ gpc' = [gpc EXCEPT ![h] = IF tick[h] = "nil" THEN "done" ELSE "recv"]
    /\ mu' = [mu EXCEPT ![h] = "free"]
    /\ UNCHANGED <<pc, tick, running, cnt, ch, store, tok, nextToken,
                   innerRet, ret, nUnlock, expired, heldFor, late>>

\* Line 70: <-ch, which blocks while the channel is empty.
GRecv(h) ==
    /\ UNCHANGED rest
    /\ gpc[h] = "recv"
    /\ ch[h] = 1
    /\ ch' = [ch EXCEPT ![h] = 0]
    /\ gpc' = [gpc EXCEPT ![h] = "relock"]
    /\ UNCHANGED <<pc, mu, tick, running, cnt, store, tok, nextToken,
                   innerRet, ret, nUnlock, expired, heldFor, late>>

\* Line 71: l.mu.Lock() after the tick.
GRelock(h) ==
    /\ UNCHANGED rest
    /\ gpc[h] = "relock"
    /\ mu[h] = "free"
    /\ mu' = [mu EXCEPT ![h] = "task"]
    /\ gpc' = [gpc EXCEPT ![h] = "chk2"]
    /\ UNCHANGED <<pc, tick, running, cnt, ch, store, tok, nextToken,
                   innerRet, ret, nUnlock, expired, heldFor, late>>

\* Mutant: l.tick is not looked at again after the tick was received.
GCheck2NoRecheck(h) ==
    /\ UNCHANGED rest
    /\ gpc[h] = "chk2"
    /\ gpc' = [gpc EXCEPT ![h] = "extending"]
    /\ store' = ExtendIfMatch(store, tok[h])
    /\ UNCHANGED <<pc, mu, tick, running, cnt, ch, tok, nextToken, innerRet,
                   ret, nUnlock, expired, heldFor, late>>

\* Lines 72-75: return (deferred unlock) if the ticker was cleared, else call
\* l.lock.Extend().
GCheck2(h) ==
    /\ UNCHANGED rest
    /\ gpc[h] = "chk2"
    /\ IF tick[h] = "nil"
       THEN /\ gpc' = [gpc EXCEPT ![h] = "done"]
            /\ mu' = [mu EXCEPT ![h] = "free"]
            /\ store' = store
       ELSE /\ gpc' = [gpc EXCEPT ![h] = "extending"]
            /\ store' = ExtendIfMatch(store, tok[h])
            /\ mu' = mu
    /\ UNCHANGED <<pc, tick, running, cnt, ch, tok, nextToken, innerRet,
                   ret, nUnlock, expired, heldFor, late>>

\* Mutant: the goroutine renews once and returns.
GExtendRetNoLoop(h) ==
    /\ UNCHANGED rest
    /\ gpc[h] = "extending"
    /\ mu' = [mu EXCEPT ![h] = "free"]
    /\ gpc' = [gpc EXCEPT ![h] = "done"]
    /\ UNCHANGED <<pc, tick, running, cnt, ch, store, tok, nextToken,
                   innerRet, ret, nUnlock, expired, heldFor, late>>

\* Mutant: the l.mu.Unlock() after Extend() is missing.
GExtendRetKeepsMu(h) ==
    /\ UNCHANGED rest
    /\ gpc[h] = "extending"
    /\ gpc' = [gpc EXCEPT ![h] = "top"]
    /\ UNCHANGED <<pc, mu, tick, running, cnt, ch, store, tok, nextToken,
                   innerRet, ret, nUnlock, expired, heldFor, late>>

\* Lines 75-77: Extend() returns, l.mu.Unlock(), next iteration.
GExtendRet(h) ==
    /\ UNCHANGED rest
    /\ gpc[h] = "extending"
    /\ mu' = [mu EXCEPT ![h] = "free"]
    /\ gpc' = [gpc EXCEPT ![h] = "top"]
    /\ UNCHANGED <<pc, tick, running, cnt, ch, store, tok, nextToken,
                   innerRet, ret, nUnlock, expired, heldFor, late>>

\* The caller enters longOperation.Unlock().
UnlockCall(h) ==
    /\ UNCHANGED rest
    /\ pc[h] = "held"
    /\ pc' = [pc EXCEPT ![h] = "u_wait"]
    /\ UNCHANGED <<gpc, mu, tick, running, cnt, ch, store, tok, nextToken,
                   innerRet, ret, nUnlock, expired, heldFor, late>>

\* Mutant: Unlock() does not wait for l.mu.
UnlockAcquireNoWait(h) ==
    /\ UNCHANGED rest
    /\ pc[h] = "u_wait"
    /\ mu' = [mu EXCEPT ![h] = "caller"]
    /\ pc' = [pc EXCEPT ![h] = "u_locked"]
    /\ UNCHANGED <<gpc, tick, running, cnt, ch, store, tok, nextToken,
                   innerRet, ret, nUnlock, expired, heldFor, late>>

\* Line 83: l.mu.Lock().
UnlockAcquire(h) ==
    /\ UNCHANGED rest
    /\ pc[h] = "u_wait"
    /\ mu[h] = "free"
    /\ mu' = [mu EXCEPT ![h] = "caller"]
    /\ pc' = [pc EXCEPT ![h] = "u_locked"]
    /\ UNCHANGED <<gpc, tick, running, cnt, ch, store, tok, nextToken,
                   innerRet, ret, nUnlock, expired, heldFor, late>>

\* Lines 85-88: l.tick.Stop(); l.tick = nil.  Stop does not close the
\* channel; a tick already buffered stays (Go before 1.23) or is discarded
\* (Go 1.23 and later).
UnlockStop(h) ==
    /\ UNCHANGED rest
    /\ pc[h] = "u_locked"
    /\ IF tick[h] # "nil"
       THEN /\ running' = [running EXCEPT ![h] = FALSE]
            /\ cnt' = [cnt EXCEPT ![h] = 0]
            /\ tick' = [tick EXCEPT ![h] = "nil"]
            /\ \E keep \in BOOLEAN :
                  ch' = [ch EXCEPT ![h] = IF keep THEN ch[h] ELSE 0]
       ELSE UNCHANGED <<running, cnt, tick, ch>>
    /\ pc' = [pc EXCEPT ![h] = "u_cleared"]
    /\ UNCHANGED <<gpc, mu, store, tok, nextToken, innerRet, ret,
                   nUnlock, expired, heldFor, late>>

\* Mutant: Unlock() stops the renewal and forgets l.lock.Unlock().
UnlockInnerSkipped(h) ==
    /\ UNCHANGED rest
    /\ pc[h] = "u_cleared"
    /\ pc' = [pc EXCEPT ![h] = "u_inner"]
    /\ UNCHANGED <<gpc, mu, tick, running, cnt, ch, store, tok, nextToken,
                   innerRet, ret, nUnlock, expired, heldFor, late>>

\* Line 89: l.lock.Unlock() is called: delete the lease if it is still ours.
UnlockInner(h) ==
    /\ UNCHANGED rest
    /\ pc[h] = "u_cleared"
    /\ store' = DeleteIfMatch(store, tok[h])
    /\ nUnlock' = [nUnlock EXCEPT ![h] = IF @ < 2 THEN @ + 1 ELSE @]
    /\ pc' = [pc EXCEPT ![h] = "u_inner"]
    /\ UNCHANGED <<gpc, mu, tick, running, cnt, ch, tok, nextToken,
                   innerRet, ret, expired, heldFor, late>>

\* Lines 89-90: l.lock.Unlock() returns, the deferred l.mu.Unlock() runs and
\* Unlock() returns.
UnlockReturn(h) ==
    /\ UNCHANGED rest
    /\ pc[h] = "u_inner"
    /\ mu' = [mu EXCEPT ![h] = "free"]
    /\ pc' = [pc EXCEPT ![h] = "released"]
    /\ UNCHANGED <<gpc, tick, running, cnt, ch, store, tok, nextToken,
                   innerRet, ret, nUnlock, expired, heldFor, late>>

----------------------------------------------------------------------------
\* Time.

\* h has work it can do without waiting for a tick or for its caller: Lock()
\* has the lease and has not started the ticker yet, or the goroutine is
\* anywhere but blocked on an empty channel.
Busy(h) ==
    \/ pc[h] = "lockret"
    \/ gpc[h] \in {"top", "chk1", "relock", "chk2", "extending"}
    \/ gpc[h] = "recv" /\ ch[h] = 1

\* The scheduling delay the timed specification allows: pending work is done
\* before a full tick period has passed.
MaxDelay == TickPeriod - 1

\* One time unit passes: the lease counts down and is deleted at zero, every
\* running ticker counts down and, at zero, sends a tick (dropped when the
\* channel is full) and rearms.
TimePasses ==
    /\ UNCHANGED rest
    /\ store' = Expire(store)
    /\ expired' = IF store.token # 0 /\ Expire(store).token = 0
                  THEN expired \cup {h \in Holders : tok[h] = store.token}
                  ELSE expired
    /\ cnt' = [h \in Holders |->
                 IF running[h]
                 THEN (IF cnt[h] = 1 THEN TickPeriod ELSE cnt[h] - 1)
                 ELSE cnt[h]]
    /\ ch' = [h \in Holders |-> IF running[h] /\ cnt[h] = 1 THEN 1 ELSE ch[h]]
    /\ UNCHANGED <<pc, gpc, mu, tick, running, tok, nextToken, innerRet,
                   ret, nUnlock>>

\* Time passes, whatever the callers and goroutines are doing.
Tock ==
    /\ TimePasses
    /\ UNCHANGED <<heldFor, late>>

\* Time passes only while nobody's pending work is overdue.
TockTimed ==
    /\ \A h \in Holders : Busy(h) => late[h] < MaxDelay
    /\ TimePasses
    /\ late' = [h \in Holders |-> IF Busy(h) THEN late[h] + 1 ELSE 0]
    /\ heldFor' = [h \in Holders |->
                     IF pc[h] = "held" /\ heldFor[h] < MaxHeld
                     THEN heldFor[h] + 1 ELSE heldFor[h]]

----------------------------------------------------------------------------
\* Specifications.

Step(h) ==
    \/ LockCall(h)
    \/ InnerLockOk(h)
    \/ InnerLockErr(h)
    \/ LockFinish(h)
    \/ GLockTop(h)
    \/ GCheck1(h)
    \/ GRecv(h)
    \/ GRelock(h)
    \/ GCheck2(h)
    \/ GExtendRet(h)
    \/ UnlockCall(h)
    \/ UnlockAcquire(h)
    \/ UnlockStop(h)
    \/ UnlockInner(h)
    \/ UnlockReturn(h)

Next == (\E h \in Holders : Step(h)) \/ Tock

\* Arbitrary scheduling: callers and goroutines may be delayed for any time.
Spec == Init /\ [][Next]_vars

NextTimed == (\E h \in Holders : Step(h)) \/ TockTimed

\* Timely scheduling: pending work is done within MaxDelay time units.
SpecTimed == Init /\ [][NextTimed]_vars

\* The steps of caller h inside Lock() and Unlock() that wait for nothing
\* but the processor (the wrapped Lock() returns in bounded time).
CallerRuns(h) ==
    \/ InnerLockOk(h)
    \/ InnerLockErr(h)
    \/ LockFinish(h)
    \/ UnlockStop(h)
    \/ UnlockInner(h)
    \/ UnlockReturn(h)

\* The steps of h's renewal goroutine other than l.mu.Lock().
TaskRuns(h) ==
    \/ GCheck1(h)
    \/ GRecv(h)
    \/ GCheck2(h)
    \/ GExtendRet(h)

\* The goroutine's two l.mu.Lock().
TaskLocksMu(h) ==
    \/ GLockTop(h)
    \/ GRelock(h)

\* What the Go scheduler, the runtime's timers and sync.Mutex guarantee: a
\* runnable caller or goroutine runs, time passes, and a waiter on l.mu gets
\* it (sync.Mutex hands the mutex to a waiter that has waited for 1ms, so a
\* waiter is not overtaken forever: strong fairness).  Nothing makes a caller
\* call Lock() or Unlock().
Fairness ==
    /\ WF_vars(Tock)
    /\ \A h \in Holders :
          /\ WF_vars(CallerRuns(h))
          /\ SF_vars(UnlockAcquire(h))
          /\ WF_vars(TaskRuns(h))
          /\ SF_vars(TaskLocksMu(h))

\* Arbitrary but fair scheduling.
FairSpec == Init /\ [][Next]_vars /\ Fairness

----------------------------------------------------------------------------
\* Sequential reuse of one wrapper instance: Lock(); Unlock(); Lock() again.
\* The goroutine of the earlier Lock() is followed under the names opc (its
\* position), och (the channel its local ch refers to) and chOld (the buffer
\* of the stopped ticker's channel); as owner of l.mu it is "old".

\* The wrapper instances that are reused.
Reusers == {"A"}

\* What the reuse of a wrapper does not touch.
reuseRest == <<cpc, ctok, cwait, readers, up, pin, pout>>

\* The caller calls Lock() again on the instance whose Unlock() returned:
\* line 57 is entered; the goroutine of the earlier Lock() is where it was.
ReLock(h) ==
    /\ pc[h] = "released"
    /\ gen[h] + 1 < MaxLocks
    /\ opc[h] \in {"none", "done"}
    /\ gen' = [gen EXCEPT ![h] = @ + 1]
    /\ pc' = [pc EXCEPT ![h] = "locking"]
    /\ innerRet' = [innerRet EXCEPT ![h] = "none"]
    /\ ret' = [ret EXCEPT ![h] = "none"]
    /\ opc' = [opc EXCEPT ![h] = gpc[h]]
    /\ gpc' = [gpc EXCEPT ![h] = "none"]
    /\ och' = [och EXCEPT ![h] = "old"]
    /\ chOld' = [chOld EXCEPT ![h] = ch[h]]
    /\ ch' = [ch EXCEPT ![h] = 0]
    /\ mu' = [mu EXCEPT ![h] = IF @ = "task" THEN "old" ELSE @]
    /\ UNCHANGED <<tick, running, cnt, store, tok, nextToken, nUnlock,
                   expired, heldFor, late, reuseRest>>

\* Earlier goroutine, line 64: l.mu.Lock() at the top of the loop.
OldLockTop(h) ==
    /\ opc[h] = "top"
    /\ mu[h] = "free"
    /\ mu' = [mu EXCEPT ![h] = "old"]
    /\ opc' = [opc EXCEPT ![h] = "chk1"]
    /\ UNCHANGED <<pc, gpc, tick, running, cnt, ch, store, tok, nextToken,
                   innerRet, ret, nUnlock, expired, heldFor, late, och,
                   chOld, gen, reuseRest>>

\* Earlier goroutine, lines 65-69: return if l.tick is nil, else take the
\* channel of the ticker l.tick now points to and unlock l.mu.
OldCheck1(h) ==
    /\ opc[h] = "chk1"
    /\ opc' = [opc EXCEPT ![h] = IF tick[h] = "nil" THEN "done" ELSE "recv"]
    /\ och' = [och EXCEPT ![h] = IF tick[h] = "nil" THEN @ ELSE "new"]
    /\ mu' = [mu EXCEPT ![h] = "free"]
    /\ UNCHANGED <<pc, gpc, tick, running, cnt, ch, store, tok, nextToken,
                   innerRet, ret, nUnlock, expired, heldFor, late, chOld,
                   gen, reuseRest>>

\* Earlier goroutine, line 70: <-ch on the channel its local ch refers to.
OldRecv(h) ==
    /\ opc[h] = "recv"
    /\ IF och[h] = "old"
       THEN /\ chOld[h] = 1
            /\ chOld' = [chOld EXCEPT ![h] = 0]
            /\ UNCHANGED ch
       ELSE /\ ch[h] = 1
            /\ ch' = [ch EXCEPT ![h] = 0]
            /\ UNCHANGED chOld
    /\ opc' = [opc EXCEPT ![h] = "relock"]
    /\ UNCHANGED <<pc, gpc, mu, tick, running, cnt, store, tok, nextToken,
                   innerRet, ret, nUnlock, expired, heldFor, late, och, gen,
                   reuseRest>>

\* Earlier goroutine, line 71: l.mu.Lock() after the tick.
OldRelock(h) ==
    /\ opc[h] = "relock"
    /\ mu[h] = "free"
    /\ mu' = [mu EXCEPT ![h] = "old"]
    /\ opc' = [opc EXCEPT ![h] = "chk2"]
    /\ UNCHANGED <<pc, gpc, tick, running, cnt, ch, store, tok, nextToken,
                   innerRet, ret, nUnlock, expired, heldFor, late, och,
                   chOld, gen, reuseRest>>

\* Earlier goroutine, lines 72-75: return if l.tick is nil, else call
\* l.lock.Extend().
OldCheck2(h) ==
    /\ opc[h] = "chk2"
    /\ IF tick[h] = "nil"
       THEN /\ opc' = [opc EXCEPT ![h] = "done"]
            /\ mu' = [mu EXCEPT ![h] = "free"]
            /\ UNCHANGED store
       ELSE /\ opc' = [opc EXCEPT ![h] = "extending"]
            /\ store' = ExtendIfMatch(store, tok[h])
            /\ UNCHANGED mu
    /\ UNCHANGED <<pc, gpc, tick, running, cnt, ch, tok, nextToken,
                   innerRet, ret, nUnlock, expired, heldFor, late, och,
                   chOld, gen, reuseRest>>

\* Earlier goroutine, line 76: l.mu.Unlock() after Extend(), back to the top.
OldExtendRet(h) ==
    /\ opc[h] = "extending"
    /\ mu' = [mu EXCEPT ![h] = "free"]
    /\ opc' = [opc EXCEPT ![h] = "top"]
    /\ UNCHANGED <<pc, gpc, tick, running, cnt, ch, store, tok, nextToken,
                   innerRet, ret, nUnlock, expired, heldFor, late, och,
                   chOld, gen, reuseRest>>

OldStep(h) ==
    \/ OldLockTop(h)
    \/ OldCheck1(h)
    \/ OldRecv(h)
    \/ OldRelock(h)
    \/ OldCheck2(h)
    \/ OldExtendRet(h)

NextReuse ==
    \/ \E h \in Reusers : Step(h) \/ ReLock(h) \/ OldStep(h)
    \/ Tock

\* One wrapper instance locked, unlocked and locked again.
SpecReuse == Init /\ [][NextReuse]_vars

----------------------------------------------------------------------------
\* The read/write lock of the distributed backend, used directly by Clients
\* (no renewal): exclusive leases with a token and an expiry, a reader count,
\* acquisition by retry within a bounded total wait.

\* Everything of the wrappers and of the pure functions, which the clients
\* of the read/write lock do not touch.
nonClientVars == <<pc, gpc, mu, tick, running, cnt, ch, tok, innerRet, ret,
                   nUnlock, expired, heldFor, late, opc, och, chOld, gen,
                   pin, pout>>

\* c's token is the one stored: c owns the live exclusive lease.
COwns(c) == ctok[c] # 0 /\ store.token = ctok[c]

\* The store would admit a writer: no exclusive lease and no reader.
WriterAdmitted == up /\ store.token = 0 /\ readers = 0

\* Mutant: a reader is admitted whatever the exclusive lease.
ReaderAdmittedAlways == up

\* The store would admit a reader: no exclusive lease.
ReaderAdmitted == up /\ store.token = 0

\* Mutant: the budget is taken as spent at the first failed attempt.
BudgetSpentAtOnce(c) == TRUE

\* The maximum total wait of c's acquisition is used up.
BudgetSpent(c) == cwait[c] = MaxWait

\* Client c calls Lock().
WLockCall(c) ==
    /\ cpc[c] = "idle"
    /\ cpc' = [cpc EXCEPT ![c] = "locking"]
    /\ cwait' = [cwait EXCEPT ![c] = 0]
    /\ UNCHANGED <<store, nextToken, ctok, readers, up, nonClientVars>>

\* An attempt of Lock() succeeds: set-if-absent with a fresh token, no
\* reader being there.
WAcquire(c) ==
    /\ cpc[c] = "locking"
    /\ WriterAdmitted
    /\ store' = SetIfAbsent(store, nextToken)
    /\ ctok' = [ctok EXCEPT ![c] = nextToken]
    /\ nextToken' = nextToken + 1
    /\ cpc' = [cpc EXCEPT ![c] = "held"]
    /\ cwait' = [cwait EXCEPT ![c] = 0]
    /\ UNCHANGED <<readers, up, nonClientVars>>

\* Client c calls RLock().
RLockCall(c) ==
    /\ cpc[c] = "idle"
    /\ cpc' = [cpc EXCEPT ![c] = "rlocking"]
    /\ cwait' = [cwait EXCEPT ![c] = 0]
    /\ UNCHANGED <<store, nextToken, ctok, readers, up, nonClientVars>>

\* An attempt of RLock() succeeds: the reader count is incremented, no
\* exclusive lease being there.
RAcquire(c) ==
    /\ cpc[c] = "rlocking"
    /\ ReaderAdmitted
    /\ readers' = readers + 1
    /\ cpc' = [cpc EXCEPT ![c] = "reading"]
    /\ cwait' = [cwait EXCEPT ![c] = 0]
    /\ UNCHANGED <<store, nextToken, ctok, up, nonClientVars>>

\* An attempt failed (the key is held, or the store cannot be reached) and
\* the maximum total wait is used up: Lock()/RLock() returns an error.
GiveUp(c) ==
    /\ cpc[c] \in {"locking", "rlocking"}
    /\ BudgetSpent(c)
    /\ IF cpc[c] = "locking" THEN ~WriterAdmitted ELSE ~ReaderAdmitted
    /\ cpc' = [cpc EXCEPT ![c] = IF cpc[c] = "locking" THEN "failed"
                                 ELSE "rfailed"]
    /\ UNCHANGED <<store, nextToken, ctok, cwait, readers, up,
                   nonClientVars>>

\* The caller whose Lock() returned an error calls Lock() again.
Retry(c) ==
    /\ cpc[c] = "failed"
    /\ cpc' = [cpc EXCEPT ![c] = "locking"]
    /\ cwait' = [cwait EXCEPT ![c] = 0]
    /\ UNCHANGED <<store, nextToken, ctok, readers, up, nonClientVars>>

\* Unlock(): delete-if-token-matches; a failure to reach the store is not
\* surfaced.
WUnlock(c) ==
    /\ cpc[c] = "held"
    /\ store' = IF up THEN DeleteIfMatch(store, ctok[c]) ELSE store
    /\ cpc' = [cpc EXCEPT ![c] = "done"]
    /\ UNCHANGED <<nextToken, ctok, cwait, readers, up, nonClientVars>>

\* RUnlock(): decrement of the reader count, floored at zero; a failure to
\* reach the store is not surfaced.
RUnlock(c) ==
    /\ cpc[c] = "reading"
    /\ readers' = IF up /\ readers > 0 THEN readers - 1 ELSE readers
    /\ cpc' = [cpc EXCEPT ![c] = "done"]
    /\ UNCHANGED <<store, nextToken, ctok, cwait, up, nonClientVars>>

\* The holder of the exclusive lock crashes: it never renews and never
\* calls Unlock().
Crash(c) ==
    /\ cpc[c] = "held"
    /\ cpc' = [cpc EXCEPT ![c] = "crashed"]
    /\ UNCHANGED <<store, nextToken, ctok, cwait, readers, up,
                   nonClientVars>>

\* The store becomes unreachable, or reachable again.
StoreFlap ==
    /\ up' = ~up
    /\ UNCHANGED <<store, nextToken, cpc, ctok, cwait, readers,
                   nonClientVars>>

\* One time unit passes: the lease counts down and is deleted at zero, the
\* waiting acquisitions have waited one unit more.
TockStore ==
    /\ store' = Expire(store)
    /\ cwait' = [c \in Clients |->
                   IF cpc[c] \in {"locking", "rlocking"} /\ cwait[c] < MaxWait
                   THEN cwait[c] + 1 ELSE cwait[c]]
    /\ UNCHANGED <<nextToken, cpc, ctok, readers, up, nonClientVars>>

ClientStep(c) ==
    \/ WLockCall(c)
    \/ WAcquire(c)
    \/ RLockCall(c)
    \/ RAcquire(c)
    \/ GiveUp(c)
    \/ Retry(c)
    \/ WUnlock(c)
    \/ RUnlock(c)
    \/ Crash(c)

NextStore == (\E c \in Clients : ClientStep(c)) \/ StoreFlap \/ TockStore

\* The read/write lock under arbitrary scheduling.
SpecStore == Init /\ [][NextStore]_vars

\* An attempt of c's pending Lock()/RLock(): it acquires or, the budget
\* spent, gives up.
ClientTries(c) == WAcquire(c) \/ RAcquire(c) \/ GiveUp(c)

\* Time passes and a pending acquisition keeps attempting (short backoff).
\* Nothing makes a client call or release, or the store come back.
FairnessStore ==
    /\ WF_vars(TockStore)
    /\ \A c \in Clients : WF_vars(ClientTries(c))

SpecStoreFair == Init /\ [][NextStore]_vars /\ FairnessStore

----------------------------------------------------------------------------
\* Pure functions: the key namer, the factory New, the ticker period.

\* Mutant: the key is the concatenation without the separator.
KeyNoSeparator(t, n) == t \o n

\* The lock key of (tenant, name): tenant + "/" + name.
Key(t, n) == t \o <<"/">> \o n

\* Mutant: New() ignores its argument.
NewAlwaysRedis(client) == "Redis"

\* New(client): NewInMemory() for a nil client, NewRedisLockGetter(client)
\* otherwise.
New(client) == IF client = "nil" THEN "InMemory" ELSE "Redis"

\* The ticker firings that fall strictly before the deadline of a lease of
\* length timeout granted (or renewed) when the ticker (re)starts its period:
\* the ticker fires k * period later, k = 1, 2, ...
FiringsBefore(timeout) ==
    Cardinality({k \in 1..timeout : k * Period(timeout) < timeout})

\* s has no "/" in it.
NoSlash(s) == \A i \in 1..Len(s) : s[i] # "/"

\* Everything of the locks, which the pure functions do not touch.
lockVars == <<pc, gpc, mu, tick, running, cnt, ch, store, tok, nextToken,
              innerRet, ret, nUnlock, expired, heldFor, late, opc, och,
              chOld, gen, cpc, ctok, cwait, readers, up>>

InitPure ==
    /\ WrapperInit
    /\ ClientsInit
    /\ pin \in PureInputs
    /\ pout = NoOutput

\* The keys of the two (tenant, name) pairs are built.
ApplyKey ==
    /\ pin.op = "key"
    /\ pout = NoOutput
    /\ pout' = [op |-> "key", k1 |-> Key(pin.t1, pin.n1),
                k2 |-> Key(pin.t2, pin.n2)]
    /\ UNCHANGED <<pin, lockVars>>

\* New(client) is called.
ApplyNew ==
    /\ pin.op = "new"
    /\ pout = NoOutput
    /\ pout' = [op |-> "new", getter |-> New(pin.client)]
    /\ UNCHANGED <<pin, lockVars>>

\* The ticker period of a wrapper with l.timeout = timeout is computed;
\* time.NewTicker panics on a period that is not positive.
ApplyPeriod ==
    /\ pin.op = "period"
    /\ pout = NoOutput
    /\ pout' = IF Period(pin.timeout) < 1
               THEN [op |-> "period", period |-> 0, firings |-> 0,
                     panic |-> TRUE]
               ELSE [op |-> "period", period |-> Period(pin.timeout),
                     firings |-> FiringsBefore(pin.timeout), panic |-> FALSE]
    /\ UNCHANGED <<pin, lockVars>>

NextPure == ApplyKey \/ ApplyNew \/ ApplyPeriod

SpecPure == InitPure /\ [][NextPure]_vars

----------------------------------------------------------------------------
\* Claims.

\* C1 as stated: in every reachable state at most one caller is between a
\* successful Lock() and its Unlock() on the key.
MutualExclusion ==
    \A a, b \in Holders : a # b => ~(Holding(a) /\ Holding(b))

\* C1, amended: two callers are both between a successful Lock() and their
\* Unlock() only if the lease of one of them ran out in the store while it
\* was holding.
MutualExclusionUnlessExpired ==
    \A a, b \in Holders :
        a # b /\ Holding(a) /\ Holding(b) => a \in expired \/ b \in expired

C1Witness ==
    \E a, b \in Holders :
        a # b /\ Holding(a) /\ Holding(b) /\ a \in expired /\ Owns(b)

\* C2: no call of the wrapped Extend() starts or runs once Unlock() has taken
\* l.mu and cleared the ticker: while Extend() runs, Unlock() has at most
\* been called and is waiting for l.mu.
NoExtendAfterRelease ==
    \A h \in Holders : gpc[h] = "extending" => pc[h] \in {"held", "u_wait"}

\* The goroutine received a tick, took l.mu after Unlock() had returned and
\* finds the ticker cleared.
C2Witness ==
    \E h \in Holders :
        gpc[h] = "chk2" /\ pc[h] = "released" /\ tick[h] = "nil"

RenewalContinues ==
    /\ [][\A h \in Holders :
            gpc[h] = "chk2" /\ gpc'[h] # "chk2" /\ Holding(h)
                => gpc'[h] = "extending"]_vars
    /\ \A h \in Holders : <>[]Holding(h) => []<>(gpc[h] = "extending")

\* The goroutine is in Extend() while the caller holds.
C4Witness ==
    \E h \in Holders : Holding(h) /\ gpc[h] = "extending" /\ Owns(h)

\* C5: once Unlock() has returned, the renewal goroutine eventually
\* terminates.
TaskTerminates ==
    \A h \in Holders : (pc[h] = "released") ~> (gpc[h] = "done")

\* C6: Unlock(), once called, eventually returns.
UnlockTerminates ==
    \A h \in Holders : (pc[h] = "u_wait") ~> (pc[h] = "released")

\* Unlock() was called while the goroutine holds l.mu.
C6Witness ==
    \E h \in Holders : pc[h] = "u_wait" /\ mu[h] = "task"

\* C7: from the moment Unlock() has l.mu to its return no Extend() runs, and
\* the wrapped Unlock() runs with the ticker stopped and cleared.
ExtendUnlockExclusive ==
    \A h \in Holders :
        /\ pc[h] \in {"u_locked", "u_cleared", "u_inner"}
              => gpc[h] # "extending"
        /\ pc[h] = "u_inner" => tick[h] = "nil" /\ ~running[h]

\* Unlock() was called while a renewal is in progress.
C7Witness ==
    \E h \in Holders : pc[h] = "u_wait" /\ gpc[h] = "extending"

\* C8: when the wrapped Lock() returned an error, Lock() returns that error,
\* no ticker exists and no goroutine was started; a goroutine exists only
\* after the wrapped Lock() succeeded.
LockErrorPropagated ==
    \A h \in Holders :
        /\ innerRet[h] \in Errs /\ pc[h] # "lockret"
              => /\ pc[h] = "failed"
                 /\ ret[h] = innerRet[h]
                 /\ tick[h] = "nil" /\ ~running[h]
                 /\ gpc[h] = "none"
        /\ pc[h] = "failed" => innerRet[h] \in Errs
        /\ gpc[h] # "none" => innerRet[h] = "nil" /\ tok[h] # 0

\* Lock() returned the retry-budget error to a caller while another held.
C8Witness ==
    \E h \in Holders : pc[h] = "failed" /\ ret[h] = "timeout"

LeaseSafety ==
    [][\A a, b \in Holders :
          /\ a # b /\ a \in expired /\ Owns(b)
          /\ \/ gpc[a] = "chk2" /\ gpc'[a] = "extending"
             \/ pc[a] = "u_cleared" /\ pc'[a] = "u_inner"
          => store' = store]_vars

\* a's lease ran out, b owns the key, and a is in the wrapped Extend() or
\* Unlock().
C10Witness ==
    \E a, b \in Holders :
        /\ a # b /\ a \in expired /\ Owns(b) /\ Holding(b)
        /\ gpc[a] = "extending" \/ pc[a] = "u_inner"

\* C13 as stated: distinct (tenant, name) pairs of non-empty strings have
\* distinct keys.
KeyInjective ==
    pout.op = "key" /\ <<pin.t1, pin.n1>> # <<pin.t2, pin.n2>>
        => pout.k1 # pout.k2

\* C13, amended: distinct (tenant, name) pairs have distinct keys when the
\* tenant identifiers contain no "/"; whatever the strings, the keys of two
\* different tenants for the same name differ, and the same pair has the
\* same key.
KeyInjectiveSlashFreeTenant ==
    pout.op = "key" =>
        /\ NoSlash(pin.t1) /\ NoSlash(pin.t2)
           /\ <<pin.t1, pin.n1>> # <<pin.t2, pin.n2>>
              => pout.k1 # pout.k2
        /\ pin.t1 # pin.t2 /\ pin.n1 = pin.n2 => pout.k1 # pout.k2
        /\ <<pin.t1, pin.n1>> = <<pin.t2, pin.n2>> => pout.k1 = pout.k2

\* Two tenants without "/" and two different names, one with a "/" in it.
C13Witness ==
    /\ pout.op = "key"
    /\ NoSlash(pin.t1) /\ NoSlash(pin.t2) /\ pin.t1 # pin.t2
    /\ pin.n1 # pin.n2 /\ ~NoSlash(pin.n1)
    /\ pout.k1 # pout.k2

\* C15: New returns the in-memory Getter for a nil client and the redis
\* Getter for any other client, and never nil.
NewSelectsBackend ==
    pout.op = "new" =>
        /\ pin.client = "nil" => pout.getter = "InMemory"
        /\ pin.client # "nil" => pout.getter = "Redis"
        /\ pout.getter # "nil"

C15Witness == pout.op = "new" /\ pin.client = "nil" /\ pout.getter = "InMemory"

\* C17: for every timeout of at least 3 the period timeout/3 is positive and
\* at least two firings of the ticker fall before the deadline of a lease of
\* length timeout.
TwoFiringsBeforeDeadline ==
    pout.op = "period" /\ pin.timeout >= 3 =>
        /\ ~pout.panic
        /\ pout.period = pin.timeout \div 3
        /\ pout.period >= 1
        /\ pout.firings >= 2
        /\ 2 * pout.period < pin.timeout

\* The tight case: a timeout of more than 3 units with exactly two firings
\* before the deadline.
C17Witness ==
    /\ pout.op = "period" /\ pin.timeout > 3
    /\ pout.firings = 2

\* C16: every write of l.tick, in Lock() as in Unlock(), is done by a thread
\* that holds l.mu (the caller is the only writer).
TickWrittenUnderMu ==
    [][\A h \in Holders : tick'[h] # tick[h] => mu[h] = "caller"]_vars

\* C18: the goroutine holds l.mu wherever it is about to unlock it (after
\* either l.mu.Lock(), on both return paths and after Extend()), does not
\* hold it while it waits on the channel, and l.mu is free once the goroutine
\* has exited and Unlock() has returned.
TaskMutexDiscipline ==
    \A h \in Holders :
        /\ gpc[h] \in {"chk1", "chk2", "extending"} => mu[h] = "task"
        /\ gpc[h] \in {"top", "recv", "relock", "done"} => mu[h] # "task"
        /\ gpc[h] = "done" /\ pc[h] = "released" => mu[h] = "free"

\* The goroutine has exited through a return path and Unlock() has returned.
C18Witness ==
    \E h \in Holders : gpc[h] = "done" /\ pc[h] = "released" /\ mu[h] = "free"

\* C11 (as stated): in every state there are readers or exactly one writer,
\* never both: no two clients hold the exclusive lock together and no
\* client holds it while another holds the shared lock.
RWExclusion ==
    \A c, d \in Clients :
        c # d /\ cpc[c] = "held" => cpc[d] \notin {"held", "reading"}

\* C11 (amended): a writer whose lease is live excludes every other live
\* writer and every reader (so a Lock() succeeds only once all RUnlock() are
\* done), and an RLock() attempt succeeds whenever the store is reachable
\* and holds no exclusive lease, whatever the number of readers.
RWExclusionWhileLeased ==
    \A c, d \in Clients :
        /\ c # d /\ cpc[c] = "held" /\ cpc[d] = "held"
              => ~COwns(c) \/ ~COwns(d)
        /\ cpc[c] = "held" /\ COwns(c) => cpc[d] # "reading"
        /\ cpc[c] = "rlocking" /\ up /\ store.token = 0
              => ENABLED RAcquire(c)

\* Two clients hold the shared lock and a third one's Lock() is waiting.
C11Witness ==
    \E c, d, e \in Clients :
        /\ c # d
        /\ cpc[c] = "reading" /\ cpc[d] = "reading"
        /\ cpc[e] = "locking" /\ cwait[e] > 0
        /\ readers = 2

\* C14: Lock()/RLock() returns an error only once the maximum total wait is
\* used up, the caller then holds nothing, and a pending acquisition always
\* ends (acquired or error) instead of blocking forever.
AcquisitionBounded ==
    /\ [](\A c \in Clients :
            cpc[c] \in {"failed", "rfailed"}
                => cwait[c] = MaxWait /\ ~COwns(c) /\ ctok[c] = 0)
    /\ \A c \in Clients :
            cpc[c] \in {"locking", "rlocking"}
                ~> cpc[c] \notin {"locking", "rlocking"}

\* A Lock() returned an error while another client held the key.
C14Witness ==
    \E c, d \in Clients :
        cpc[c] = "failed" /\ cpc[d] = "held" /\ COwns(d)

OldTaskNeverResumes ==
    \A h \in Holders : opc[h] # "extending" /\ och[h] # "new"

====
